---------------------------- MODULE Spec2Model ----------------------------
(***************************************************************************)
(* Model of src/app.py: one DualCameraYOLO object, its two camera worker   *)
(* threads (_process_camera), the frame queues they publish to, the stats  *)
(* dictionary guarded by stats_lock, and the threads that call the public  *)
(* methods (get_frame, get_stats, estimate_volume, pause_processing,       *)
(* resume_processing, start_streams, stop_streams).                        *)
(*                                                                         *)
(* Granularity.  Every operation of a queue.Queue (empty, get_nowait,      *)
(* put_nowait) is one step: the queue's own mutex makes each atomic and    *)
(* nothing wider.  Every `with self.stats_lock:` block is one step: all    *)
(* accesses to the fields it guards are made under the lock, except the    *)
(* reads of a snapshot returned by get_stats (see get_stats).  The reads   *)
(* of self.processing are unguarded single reads.  cap.read() and the two  *)
(* model.predict() calls are one step each, taken when the call returns or *)
(* raises.  Locals that are dead are reset, so that they do not multiply   *)
(* the states.  The fps entry of the stats is a wall-clock value that      *)
(* nothing else reads; it is left out.                                     *)
(***************************************************************************)
EXTENDS Integers, Sequences, FiniteSets, TLC

\* ------------------------------------------------------------------ bounds
\* frames the two capture sources deliver, together, in a checked run
MaxFrames == 2
\* cap of the counter of publishes since the last read
PubCap == 2

Cameras == {1, 2}

\* A frame (numpy image): the acquisition number of the raw frame it was made
\* from and the overlays drawn on it.  A copy has the same pixels, hence the
\* same value.
Frame(n, b, m) == [acq |-> n, boxes |-> b, masks |-> m]
\* frame.copy() / the frame returned by cap.read(): no overlay
RawFrame(n) == Frame(n, 0, 0)
\* Python None where a frame is expected
NoFrame == Frame(0, 0, 0)

\* cv2.imencode('.jpg', frame, ...) followed by buf.tobytes()
Jpeg(f) == [jpg |-> f]
\* get_frame's return value None
NoBytes == [jpg |-> NoFrame]

\* The lists _extract_truck_boxes returns in the checked runs.  A kept box is
\* given by whether its crop frame[cy1:cy2, cx1:cx2] has pixels ("crop") or
\* has none ("empty", line 250).
TruckBoxLists == {<<>>, <<"empty", "crop">>}

\* The lists _extract_seg_masks returns for one crop in the checked runs, each
\* mask given by the pixel count np.sum(full_mask > 0) of its remapped mask.
MaskLists == {<<>>, <<1, 2>>}

RECURSIVE SumSeq(_)
SumSeq(s) == IF s = <<>> THEN 0 ELSE Head(s) + SumSeq(Tail(s))

VARIABLES
    processing,          \* self.processing
    processing_paused,   \* self.processing_paused
    cap,                 \* self.cap1 / self.cap2: "none", "open", "closed", "released"
    frame_queue,         \* self.frame_queue1 / self.frame_queue2
    stats,               \* self.stats['camera<c>'] : the inner dict objects
    volume_estimate,     \* self.stats['volume_estimate'], in units of 1/200
    pc,                  \* position of each worker thread in _process_camera
    acq,                 \* number of frames each capture source has delivered
    frame,               \* local frame of _process_camera (0: unset)
    frozen_frame,        \* local frozen_frame (0: None)
    truck_boxes,         \* local truck_boxes
    ridx,                \* position of the for loop over truck_boxes
    brick_masks_full,    \* local brick_masks_full, each mask by its pixel count
    total_brick_area,    \* local total_brick_area
    pend,                \* the frame handed to put_nowait
    path,                \* which publish of the loop is running
    stop_pc,             \* position of the thread inside stop_streams
    gf_pc,               \* position of the consumer thread inside get_frame
    gf_cam,              \* get_frame's camera_id
    gf_frame,            \* get_frame's local frame
    ret,                 \* what get_stats or estimate_volume returned last
    ctl,                 \* history: the last two calls of pause_processing / resume_processing
    fresh,               \* history: the publishes since a frame was last taken out
    gf_exp,              \* history: what the running get_frame found when it began
    lock,                \* self.stats_lock: 0 when free, else the thread that holds it
    region,              \* a kept box (x1, y1, x2, y2), its frame W x H and crop_margin
    window,              \* the crop window (cx1, cy1, cx2, cy2) computed for region
    seg_mask,            \* a mask m returned by _extract_seg_masks for the crop
    full_mask,           \* the full-frame mask full_mask made from seg_mask
    det_results,         \* the boxes of a detection result, in the order of the result
    boxes_out,           \* what _extract_truck_boxes returns for det_results
    delivered            \* history: per camera, the acquisition number of the frame
                         \* get_frame returned last (0: none yet)

wvars == <<pc, acq, frame, frozen_frame, truck_boxes, ridx, brick_masks_full,
           total_brick_area, pend, path>>
gvars == <<gf_pc, gf_cam, gf_frame, gf_exp>>
\* the lock as a variable and the variables of the computations on one box
xvars == <<lock, region, window, seg_mask, full_mask, det_results, boxes_out, delivered>>
vars == <<processing, processing_paused, cap, frame_queue, stats, volume_estimate,
          wvars, stop_pc, gvars, ret, ctl, fresh, xvars>>

\* ---------------------------------------------------------- __init__
ZeroStats == [trucks |-> 0, objects |-> 0, total_area |-> 0, brick_area |-> 0]

NoReturn == [op |-> "none", val |-> 0, paused |-> FALSE]

\* no publish since a frame was last taken out of the queue
NoPub == [frame |-> NoFrame, n |-> 0]

\* The history variables record nothing in the specifications that do not
\* read them: fresh stays HistOff and ctl stays CtlOff when they start so.
HistOff == [frame |-> NoFrame, n |-> -1]
CtlOff == <<"off">>

\* fresh[c] after the frames of camera c's queue were taken out
Taken(c) == IF fresh[c] = HistOff THEN HistOff ELSE NoPub

\* fresh[c] after frame f was put into camera c's queue
Published(c, f) ==
    IF fresh[c] = HistOff THEN HistOff
    ELSE [frame |-> f, n |-> IF fresh[c].n < PubCap THEN fresh[c].n + 1 ELSE fresh[c].n]

NoExp == [kind |-> "idle", frame |-> NoFrame, n |-> 0]

\* a publish, or a drain by stop_streams, overlaps the running get_frame
Dirty == [kind |-> "dirty", frame |-> NoFrame, n |-> 0]

\* nothing: Python None, or a computation not made
None == <<>>

\* The specifications that take every "with self.stats_lock" block as one
\* step start with lock = LockOff, and lock stays so; in the others lock is
\* 0 when the lock is free and c when the worker of camera c holds it.
LockOff == -1

\* delivered records nothing in the specifications that start with DeliveredOff
DeliveredOff == <<"off">>

\* no thread is inside a "with self.stats_lock" block
LockFree == lock \in {LockOff, 0}

InitProgram(ctl0, fresh0, lock0) ==
    /\ processing = FALSE
    /\ processing_paused = FALSE
    /\ cap = [c \in Cameras |-> "none"]
    /\ frame_queue = [c \in Cameras |-> <<>>]
    /\ stats = [c \in Cameras |-> ZeroStats]
    /\ volume_estimate = 0
    /\ pc = [c \in Cameras |-> "unstarted"]
    /\ acq = [c \in Cameras |-> 0]
    /\ frame = [c \in Cameras |-> 0]
    /\ frozen_frame = [c \in Cameras |-> 0]
    /\ truck_boxes = [c \in Cameras |-> <<>>]
    /\ ridx = [c \in Cameras |-> 0]
    /\ brick_masks_full = [c \in Cameras |-> <<>>]
    /\ total_brick_area = [c \in Cameras |-> 0]
    /\ pend = [c \in Cameras |-> NoFrame]
    /\ path = [c \in Cameras |-> "none"]
    /\ stop_pc = "idle"
    /\ gf_pc = "idle"
    /\ gf_cam = 1
    /\ gf_frame = NoFrame
    /\ ret = NoReturn
    /\ ctl = ctl0
    /\ fresh = [c \in Cameras |-> fresh0]
    /\ gf_exp = NoExp
    /\ lock = lock0

InitWith(ctl0, fresh0) ==
    /\ InitProgram(ctl0, fresh0, LockOff)
    /\ region = None
    /\ window = None
    /\ seg_mask = None
    /\ full_mask = None
    /\ det_results = None
    /\ boxes_out = None
    /\ delivered = DeliveredOff


\* ------------------------------------------------------- _process_camera
QueueSize == 2

PubPcs == {"pub_empty", "pub_get", "pub_put"}

\* a step of worker c that changes frame_queue[c] while get_frame(c) is running
Disturbed(c) ==
    IF gf_pc # "idle" /\ gf_cam = c
    THEN Dirty
    ELSE gf_exp

\* the locals of one iteration, dead once the iteration has its frame to publish
ResetLocals(c) ==
    /\ truck_boxes' = [truck_boxes EXCEPT ![c] = <<>>]
    /\ ridx' = [ridx EXCEPT ![c] = 0]
    /\ brick_masks_full' = [brick_masks_full EXCEPT ![c] = <<>>]
    /\ total_brick_area' = [total_brick_area EXCEPT ![c] = 0]

shared == <<processing, processing_paused, cap, frame_queue, stats, volume_estimate,
            stop_pc, gvars, ret, ctl, fresh, xvars>>

\* line 204: while self.processing and cap.isOpened()
W_LoopTest(c) ==
    /\ pc[c] = "loop"
    /\ pc' = [pc EXCEPT ![c] = IF processing /\ cap[c] = "open" THEN "chk" ELSE "done"]
    /\ UNCHANGED <<shared, acq, frame, frozen_frame, truck_boxes, ridx,
                   brick_masks_full, total_brick_area, pend, path>>

\* W_ReadPaused with the test of the flag inverted
W_ReadPausedInverted(c) ==
    /\ pc[c] = "chk"
    /\ LockFree
    /\ IF ~processing_paused
       THEN IF frozen_frame[c] # 0
            THEN /\ pend' = [pend EXCEPT ![c] = RawFrame(frozen_frame[c])]
                 /\ path' = [path EXCEPT ![c] = "paused"]
                 /\ pc' = [pc EXCEPT ![c] = "pub_empty"]
            ELSE /\ pc' = [pc EXCEPT ![c] = "sleep"]
                 /\ UNCHANGED <<pend, path>>
       ELSE /\ pc' = [pc EXCEPT ![c] = "read"]
            /\ UNCHANGED <<pend, path>>
    /\ UNCHANGED <<shared, acq, frame, frozen_frame, truck_boxes, ridx,
                   brick_masks_full, total_brick_area>>

\* lines 205-209: read the flag under the lock, branch on it and on frozen_frame
W_ReadPaused(c) ==
    /\ pc[c] = "chk"
    /\ LockFree
    /\ IF processing_paused
       THEN IF frozen_frame[c] # 0
            THEN /\ pend' = [pend EXCEPT ![c] = RawFrame(frozen_frame[c])]
                 /\ path' = [path EXCEPT ![c] = "paused"]
                 /\ pc' = [pc EXCEPT ![c] = "pub_empty"]
            ELSE /\ pc' = [pc EXCEPT ![c] = "sleep"]
                 /\ UNCHANGED <<pend, path>>
       ELSE /\ pc' = [pc EXCEPT ![c] = "read"]
            /\ UNCHANGED <<pend, path>>
    /\ UNCHANGED <<shared, acq, frame, frozen_frame, truck_boxes, ridx,
                   brick_masks_full, total_brick_area>>

\* lines 216-217 and 221-222: time.sleep(...); continue
W_Sleep(c) ==
    /\ pc[c] = "sleep"
    /\ pc' = [pc EXCEPT ![c] = "loop"]
    /\ UNCHANGED <<shared, acq, frame, frozen_frame, truck_boxes, ridx,
                   brick_masks_full, total_brick_area, pend, path>>

\* W_Read where frozen_frame is set by the first read only
W_ReadKeepsFrozen(c) ==
    /\ pc[c] = "read"
    /\ \/ /\ cap[c] = "open"
          /\ acq[1] + acq[2] < MaxFrames
          /\ acq' = [acq EXCEPT ![c] = @ + 1]
          /\ frame' = [frame EXCEPT ![c] = acq[c] + 1]
          /\ frozen_frame' = [frozen_frame EXCEPT ![c] = IF @ = 0 THEN acq[c] + 1 ELSE @]
          /\ pc' = [pc EXCEPT ![c] = "detect"]
       \/ /\ pc' = [pc EXCEPT ![c] = "sleep"]
          /\ UNCHANGED <<acq, frame, frozen_frame>>
    /\ UNCHANGED <<shared, truck_boxes, ridx, brick_masks_full, total_brick_area,
                   pend, path>>

\* lines 219-225: ret, frame = cap.read(); frozen_frame = frame.copy()
W_Read(c) ==
    /\ pc[c] = "read"
    /\ \/ /\ cap[c] = "open"
          /\ acq[1] + acq[2] < MaxFrames
          /\ acq' = [acq EXCEPT ![c] = @ + 1]
          /\ frame' = [frame EXCEPT ![c] = acq[c] + 1]
          /\ frozen_frame' = [frozen_frame EXCEPT ![c] = acq[c] + 1]
          /\ pc' = [pc EXCEPT ![c] = "detect"]
       \/ /\ pc' = [pc EXCEPT ![c] = "sleep"]
          /\ UNCHANGED <<acq, frame, frozen_frame>>
    /\ UNCHANGED <<shared, truck_boxes, ridx, brick_masks_full, total_brick_area,
                   pend, path>>

\* Handler without the except clause: the exception ends the thread
HandlerPropagates(c) ==
    /\ pc' = [pc EXCEPT ![c] = "done"]
    /\ ResetLocals(c)
    /\ UNCHANGED <<pend, path>>

\* lines 329-336, entry: the except clause takes the raw frame to publish
Handler(c) ==
    /\ pend' = [pend EXCEPT ![c] = RawFrame(frame[c])]
    /\ path' = [path EXCEPT ![c] = "error"]
    /\ pc' = [pc EXCEPT ![c] = "pub_empty"]
    /\ ResetLocals(c)

\* lines 229-237: det_model.predict, _extract_truck_boxes, the accumulators
W_Detect(c) ==
    /\ pc[c] = "detect"
    /\ \/ Handler(c)
       \/ \E tb \in TruckBoxLists :
            /\ truck_boxes' = [truck_boxes EXCEPT ![c] = tb]
            /\ brick_masks_full' = [brick_masks_full EXCEPT ![c] = <<>>]
            /\ total_brick_area' = [total_brick_area EXCEPT ![c] = 0]
            /\ ridx' = [ridx EXCEPT ![c] = IF tb = <<>> THEN 0 ELSE 1]
            /\ pc' = [pc EXCEPT ![c] = IF tb = <<>> THEN "compose" ELSE "seg"]
            /\ UNCHANGED <<pend, path>>
    /\ UNCHANGED <<shared, acq, frame, frozen_frame>>

\* the for loop of line 239 moves to its next box, or ends
NextBox(c) ==
    IF ridx[c] < Len(truck_boxes[c])
    THEN /\ ridx' = [ridx EXCEPT ![c] = @ + 1]
         /\ pc' = pc
    ELSE /\ ridx' = [ridx EXCEPT ![c] = 0]
         /\ pc' = [pc EXCEPT ![c] = "compose"]

\* lines 239-274: one pass of the loop over truck_boxes
W_Segment(c) ==
    /\ pc[c] = "seg"
    /\ \/ /\ truck_boxes[c][ridx[c]] = "empty"
          /\ NextBox(c)
          /\ UNCHANGED <<truck_boxes, brick_masks_full, total_brick_area, pend, path>>
       \/ /\ truck_boxes[c][ridx[c]] = "crop"
          /\ \/ Handler(c)
             \/ \E ms \in MaskLists :
                  /\ brick_masks_full' = [brick_masks_full EXCEPT ![c] = @ \o ms]
                  /\ total_brick_area' = [total_brick_area EXCEPT ![c] = @ + SumSeq(ms)]
                  /\ NextBox(c)
                  /\ UNCHANGED <<truck_boxes, pend, path>>
    /\ UNCHANGED <<shared, acq, frame, frozen_frame>>

\* lines 276-294: compositing raises
W_Compose(c) ==
    /\ pc[c] = "compose"
    /\ Handler(c)
    /\ UNCHANGED <<shared, acq, frame, frozen_frame>>

\* IterationStats with the count of the boxes stored as the count of the masks
IterationStatsBoxes(c) ==
    [trucks |-> Len(truck_boxes[c]),
     objects |-> Len(truck_boxes[c]),
     total_area |-> total_brick_area[c],
     brick_area |-> total_brick_area[c]]

\* what lines 306-311 store for camera c
IterationStats(c) ==
    [trucks |-> Len(truck_boxes[c]),
     objects |-> Len(brick_masks_full[c]),
     total_area |-> total_brick_area[c],
     brick_area |-> total_brick_area[c]]

\* lines 276-313: the annotated frame is composed and the stats are stored;
\* line 314: now - last_debug_log >= 20.0 decides whether the log block runs
W_UpdateStats(c) ==
    /\ pc[c] = "compose"
    /\ LockFree
    /\ stats' = [stats EXCEPT ![c] = IterationStats(c)]
    /\ pend' = [pend EXCEPT ![c] =
                   Frame(frame[c], Len(truck_boxes[c]), Len(brick_masks_full[c]))]
    /\ path' = [path EXCEPT ![c] = "run"]
    /\ \E due \in IF lock = LockOff THEN {FALSE} ELSE BOOLEAN :
          pc' = [pc EXCEPT ![c] = IF due THEN "log" ELSE "pub_empty"]
    /\ ResetLocals(c)
    /\ UNCHANGED <<xvars, processing, processing_paused, cap, frame_queue, volume_estimate,
                   stop_pc, gvars, ret, ctl, fresh, acq, frame, frozen_frame>>

\* W_QueueEmpty without the loop that empties the queue before the put
W_QueueEmptyNoDrain(c) ==
    /\ pc[c] = "pub_empty"
    /\ pc' = [pc EXCEPT ![c] = "pub_put"]
    /\ UNCHANGED <<shared, acq, frame, frozen_frame, truck_boxes, ridx,
                   brick_masks_full, total_brick_area, pend, path>>

\* W_QueueEmpty that empties the queue only when it holds QueueSize frames
W_QueueEmptyWhenFull(c) ==
    /\ pc[c] = "pub_empty"
    /\ pc' = [pc EXCEPT ![c] = IF Len(frame_queue[c]) < QueueSize THEN "pub_put" ELSE "pub_get"]
    /\ UNCHANGED <<shared, acq, frame, frozen_frame, truck_boxes, ridx,
                   brick_masks_full, total_brick_area, pend, path>>

\* lines 211, 323, 332: while not frame_queue.empty()
W_QueueEmpty(c) ==
    /\ pc[c] = "pub_empty"
    /\ pc' = [pc EXCEPT ![c] = IF frame_queue[c] = <<>> THEN "pub_put" ELSE "pub_get"]
    /\ UNCHANGED <<shared, acq, frame, frozen_frame, truck_boxes, ridx,
                   brick_masks_full, total_brick_area, pend, path>>

\* lines 212-213, 324-325, 333-334: try: get_nowait() except Empty: break
W_QueueGet(c) ==
    /\ pc[c] = "pub_get"
    /\ IF frame_queue[c] # <<>>
       THEN /\ frame_queue' = [frame_queue EXCEPT ![c] = Tail(@)]
            /\ gf_exp' = Disturbed(c)
            /\ pc' = [pc EXCEPT ![c] = "pub_empty"]
       ELSE /\ pc' = [pc EXCEPT ![c] = "pub_put"]
            /\ UNCHANGED <<frame_queue, gf_exp>>
    /\ UNCHANGED <<xvars, processing, processing_paused, cap, stats, volume_estimate, stop_pc,
                   gf_pc, gf_cam, gf_frame, ret, ctl, fresh, acq, frame,
                   frozen_frame, truck_boxes, ridx, brick_masks_full,
                   total_brick_area, pend, path>>

\* lines 214-217, 326-327, 335-336: put_nowait inside try/except: pass, so that
\* a frame put into a full queue is lost without a trace
W_QueuePut(c) ==
    /\ pc[c] = "pub_put"
    /\ IF Len(frame_queue[c]) < QueueSize
       THEN frame_queue' = [frame_queue EXCEPT ![c] = Append(@, pend[c])]
       ELSE UNCHANGED frame_queue
    /\ fresh' = [fresh EXCEPT ![c] = Published(c, pend[c])]
    /\ gf_exp' = Disturbed(c)
    /\ pc' = [pc EXCEPT ![c] = IF path[c] = "paused" THEN "sleep" ELSE "loop"]
    /\ path' = [path EXCEPT ![c] = "none"]
    /\ pend' = [pend EXCEPT ![c] = NoFrame]
    /\ UNCHANGED <<xvars, processing, processing_paused, cap, stats, volume_estimate, stop_pc,
                   gf_pc, gf_cam, gf_frame, ret, ctl, acq, frame, frozen_frame,
                   truck_boxes, ridx, brick_masks_full, total_brick_area>>

\* line 315: with self.stats_lock, entered
W_LogAcquire(c) ==
    /\ pc[c] = "log"
    /\ lock = 0
    /\ lock' = c
    /\ pc' = [pc EXCEPT ![c] = "log_read"]
    /\ UNCHANGED <<region, window, seg_mask, full_mask, det_results, boxes_out, delivered,
                   processing, processing_paused,
                   cap, frame_queue, stats, volume_estimate, stop_pc, gvars, ret, ctl,
                   fresh, acq, frame, frozen_frame, truck_boxes, ridx,
                   brick_masks_full, total_brick_area, pend, path>>

\* line 316: s = self.stats['camera<c>'], inside the block
W_LogRead(c) ==
    /\ pc[c] = "log_read"
    /\ lock = c
    /\ pc' = [pc EXCEPT ![c] = "log_call"]
    /\ UNCHANGED <<shared, acq, frame, frozen_frame, truck_boxes, ridx,
                   brick_masks_full, total_brick_area, pend, path>>

\* W_LogDebug with the lock kept when the block ends
W_LogDebugNoRelease(c) ==
    /\ pc[c] = "log_call"
    /\ lock = c
    /\ pc' = [pc EXCEPT ![c] = "pub_empty"]
    /\ UNCHANGED <<shared, acq, frame, frozen_frame, truck_boxes, ridx,
                   brick_masks_full, total_brick_area, pend, path>>

\* lines 317-319: logger.debug(...) inside the block, which ends when the call
\* has returned; last_debug_log = now
W_LogDebug(c) ==
    /\ pc[c] = "log_call"
    /\ lock = c
    /\ lock' = 0
    /\ pc' = [pc EXCEPT ![c] = "pub_empty"]
    /\ UNCHANGED <<region, window, seg_mask, full_mask, det_results, boxes_out, delivered,
                   processing, processing_paused,
                   cap, frame_queue, stats, volume_estimate, stop_pc, gvars, ret, ctl,
                   fresh, acq, frame, frozen_frame, truck_boxes, ridx,
                   brick_masks_full, total_brick_area, pend, path>>

\* lines 314-319: the occasional log of the stats
WorkerLog(c) ==
    \/ W_LogAcquire(c)
    \/ W_LogRead(c)
    \/ W_LogDebug(c)

Worker(c) ==
    \/ W_LoopTest(c)
    \/ W_ReadPaused(c)
    \/ W_Sleep(c)
    \/ W_Read(c)
    \/ W_Detect(c)
    \/ W_Segment(c)
    \/ W_Compose(c)
    \/ W_UpdateStats(c)
    \/ W_QueueEmpty(c)
    \/ W_QueueGet(c)
    \/ W_QueuePut(c)

\* ---------------------------------------------------------------- get_frame
\* lines 383-385: the call begins.  The history variable gf_exp records what a
\* read that no publish overlaps has to return: the frame published last when
\* frames were published since the last read, nothing when the queue is empty.
GF_Call(c) ==
    /\ gf_pc = "idle"
    /\ gf_pc' = "empty"
    /\ gf_cam' = c
    /\ gf_frame' = NoFrame
    /\ gf_exp' = IF pc[c] \in PubPcs \/ stop_pc = "drain"
                 THEN Dirty
                 ELSE IF fresh[c].n >= 1
                      THEN [kind |-> "frame", frame |-> fresh[c].frame, n |-> fresh[c].n]
                      ELSE IF frame_queue[c] = <<>> /\ fresh[c] # HistOff
                           THEN [kind |-> "none", frame |-> NoFrame, n |-> 0]
                           ELSE Dirty
    /\ UNCHANGED <<xvars, processing, processing_paused, cap, frame_queue, stats,
                   volume_estimate, wvars, stop_pc, ret, ctl, fresh>>

\* line 386: while not frame_queue.empty()
GF_Empty ==
    /\ gf_pc = "empty"
    /\ gf_pc' = IF frame_queue[gf_cam] = <<>> THEN "ret" ELSE "get"
    /\ UNCHANGED <<xvars, processing, processing_paused, cap, frame_queue, stats,
                   volume_estimate, wvars, stop_pc, ret, ctl, fresh, gf_cam, gf_frame,
                   gf_exp>>

\* lines 387-388: try: frame = frame_queue.get_nowait() except Empty: break
GF_Get ==
    /\ gf_pc = "get"
    /\ IF frame_queue[gf_cam] # <<>>
       THEN /\ gf_frame' = Head(frame_queue[gf_cam])
            /\ frame_queue' = [frame_queue EXCEPT ![gf_cam] = Tail(@)]
            /\ fresh' = [fresh EXCEPT ![gf_cam] = Taken(gf_cam)]
            /\ gf_pc' = "empty"
       ELSE /\ gf_pc' = "ret"
            /\ UNCHANGED <<gf_frame, frame_queue, fresh>>
    /\ UNCHANGED <<xvars, processing, processing_paused, cap, stats, volume_estimate, wvars,
                   stop_pc, ret, ctl, gf_cam, gf_exp>>

\* lines 389-395: what the call returns: the frame taken last, encoded, or None
GF_Result == IF gf_frame # NoFrame THEN Jpeg(gf_frame) ELSE NoBytes

\* lines 389-395: the call returns GF_Result
GF_Return ==
    /\ gf_pc = "ret"
    /\ gf_frame' = NoFrame
    /\ gf_exp' = NoExp
    /\ gf_pc' = "idle"
    /\ delivered' = IF delivered = DeliveredOff \/ GF_Result = NoBytes
                    THEN delivered
                    ELSE [delivered EXCEPT ![gf_cam] = gf_frame.acq]
    /\ UNCHANGED <<lock, region, window, seg_mask, full_mask, det_results, boxes_out,
                   processing, processing_paused, cap, frame_queue, stats,
                   volume_estimate, wvars, stop_pc, ret, ctl, fresh, gf_cam>>

get_frame ==
    \/ \E c \in Cameras : GF_Call(c)
    \/ GF_Empty
    \/ GF_Get
    \/ GF_Return

\* ------------------------------------------------ the lock-protected methods
\* the history of the writes of the pause flag: the last two calls, the latest
\* last; start_streams, which writes the flag too, empties it
CtlAfter(op) ==
    IF ctl = CtlOff THEN CtlOff
    ELSE IF ctl = <<>> THEN <<op>> ELSE <<ctl[Len(ctl)], op>>

\* pause_processing that flips the flag instead of setting it
pause_toggle ==
    /\ LockFree
    /\ processing_paused' = ~processing_paused
    /\ ctl' = CtlAfter("pause")
    /\ UNCHANGED <<xvars, processing, cap, frame_queue, stats, volume_estimate, wvars,
                   stop_pc, gvars, ret, fresh>>

\* lines 181-184
pause_processing ==
    /\ LockFree
    /\ processing_paused' = TRUE
    /\ ctl' = CtlAfter("pause")
    /\ UNCHANGED <<xvars, processing, cap, frame_queue, stats, volume_estimate, wvars,
                   stop_pc, gvars, ret, fresh>>

\* lines 186-189
resume_processing ==
    /\ LockFree
    /\ processing_paused' = FALSE
    /\ ctl' = CtlAfter("resume")
    /\ UNCHANGED <<xvars, processing, cap, frame_queue, stats, volume_estimate, wvars,
                   stop_pc, gvars, ret, fresh>>

\* lines 397-401: stats = self.stats.copy() is a copy of the outer dict only:
\* the snapshot holds the value of volume_estimate and of processing_paused,
\* and for 'camera1' and 'camera2' the inner dict objects themselves.
get_stats ==
    /\ LockFree
    /\ ret' = [op |-> "get_stats", val |-> volume_estimate, paused |-> processing_paused]
    /\ UNCHANGED <<xvars, processing, processing_paused, cap, frame_queue, stats,
                   volume_estimate, wvars, stop_pc, gvars, ctl, fresh>>

\* what a reader of the returned snapshot finds under 'camera<c>': the inner
\* dict object, as it is when it is read
SnapshotCamera(c) == stats[c]

\* VolumeOf without the halving
VolumeOfSum(area1, area2) == ((area1 + area2) * 200) \div 100

\* lines 408-412: est = ((area1 + area2) / 2.0) * 0.01, in units of 1/200
VolumeOf(area1, area2) == ((area1 + area2) * 200) \div (2 * 100)

\* lines 403-414
estimate_volume ==
    LET est == VolumeOf(stats[1].brick_area, stats[2].brick_area)
    IN /\ LockFree
       /\ volume_estimate' = est
       /\ ret' = [op |-> "estimate_volume", val |-> est, paused |-> FALSE]
       /\ UNCHANGED <<xvars, processing, processing_paused, cap, frame_queue, stats, wvars,
                      stop_pc, gvars, ctl, fresh>>

\* ------------------------------------------------ start_streams, stop_streams
\* start_streams returned, line 175 reached
Returned == [op |-> "start_streams", val |-> 1, paused |-> FALSE]
\* start_streams raised, line 179
Raised == [op |-> "start_streams", val |-> 0, paused |-> FALSE]

\* start_streams whose except clause raises without calling stop_streams: the
\* first capture stays open when the second does not open
start_streams_NoRollback ==
    /\ \A c \in Cameras : cap[c] = "none"
    /\ \/ /\ cap' = [c \in Cameras |-> "open"]
          /\ processing' = TRUE
          /\ processing_paused' = FALSE
          /\ frame_queue' = [c \in Cameras |-> <<>>]
          /\ pc' = [c \in Cameras |-> "loop"]
          /\ ctl' = IF ctl = CtlOff THEN CtlOff ELSE <<>>
          /\ ret' = Returned
       \/ /\ cap' = [c \in Cameras |-> IF c = 1 THEN "open" ELSE "closed"]
          /\ ret' = Raised
          /\ UNCHANGED <<processing, frame_queue, processing_paused, pc, ctl>>
    /\ fresh' = [c \in Cameras |-> Taken(c)]
    /\ gf_exp' = IF gf_pc # "idle" THEN Dirty ELSE gf_exp
    /\ UNCHANGED <<xvars, stats, volume_estimate, acq, frame, frozen_frame, truck_boxes, ridx,
                   brick_masks_full, total_brick_area, pend, path, stop_pc, gf_pc,
                   gf_cam, gf_frame>>

\* lines 142-179.  Called once on an object (start_processing builds a new
\* object for every start).  Either both captures open, the flags are set, the
\* queues are cleared and the two threads start; or one does not open, and the
\* except clause runs stop_streams (no thread to join) and raises.  ret
\* records whether the call returned or raised.
start_streams ==
    /\ \A c \in Cameras : cap[c] = "none"
    /\ \/ /\ cap' = [c \in Cameras |-> "open"]
          /\ processing' = TRUE
          /\ processing_paused' = FALSE
          /\ frame_queue' = [c \in Cameras |-> <<>>]
          /\ pc' = [c \in Cameras |-> "loop"]
          /\ ctl' = IF ctl = CtlOff THEN CtlOff ELSE <<>>
          /\ ret' = Returned
       \/ /\ cap' = [c \in Cameras |-> "released"]
          /\ processing' = FALSE
          /\ frame_queue' = [c \in Cameras |-> <<>>]
          /\ ret' = Raised
          /\ UNCHANGED <<processing_paused, pc, ctl>>
    /\ fresh' = [c \in Cameras |-> Taken(c)]
    /\ gf_exp' = IF gf_pc # "idle" THEN Dirty ELSE gf_exp
    /\ UNCHANGED <<xvars, stats, volume_estimate, acq, frame, frozen_frame, truck_boxes, ridx,
                   brick_masks_full, total_brick_area, pend, path, stop_pc, gf_pc,
                   gf_cam, gf_frame>>

\* line 418: self.processing = False
Stop_Signal ==
    /\ stop_pc = "idle"
    /\ processing' = FALSE
    /\ stop_pc' = "join"
    /\ UNCHANGED <<xvars, processing_paused, cap, frame_queue, stats, volume_estimate, wvars,
                   gvars, ret, ctl, fresh>>

\* Stop_Release without the tests `if self.cap1:` and `if self.cap2:`: release
\* is called on None, and raises, when the object was never started
Stop_ReleaseUntested ==
    /\ stop_pc = "join"
    /\ \A c \in Cameras : cap[c] # "none"
    /\ cap' = [c \in Cameras |-> "released"]
    /\ stop_pc' = "drain"
    /\ UNCHANGED <<xvars, processing, processing_paused, frame_queue, stats, volume_estimate,
                   wvars, gvars, ret, ctl, fresh>>

\* lines 419-423: each join returns, the thread ended or 3 s over; then release
Stop_Release ==
    /\ stop_pc = "join"
    /\ cap' = [c \in Cameras |-> IF cap[c] = "none" THEN "none" ELSE "released"]
    /\ stop_pc' = "drain"
    /\ UNCHANGED <<xvars, processing, processing_paused, frame_queue, stats, volume_estimate,
                   wvars, gvars, ret, ctl, fresh>>

\* lines 424-427: both queues are emptied
Stop_Drain ==
    /\ stop_pc = "drain"
    /\ frame_queue' = [c \in Cameras |-> <<>>]
    /\ fresh' = [c \in Cameras |-> Taken(c)]
    /\ gf_exp' = IF gf_pc # "idle" THEN Dirty ELSE gf_exp
    /\ stop_pc' = "idle"
    /\ UNCHANGED <<xvars, processing, processing_paused, cap, stats, volume_estimate, wvars,
                   gf_pc, gf_cam, gf_frame, ret, ctl>>

stop_streams ==
    \/ Stop_Signal
    \/ Stop_Release
    \/ Stop_Drain

\* ------------------------------------------- the crop window of a kept box
\* lines 239-247 of _process_camera, for one box of truck_boxes
\* size of the small frame, of which every kept box is checked
SmallW == 8
SmallH == 6

\* every variable but those of the computations on one box
pvars == <<processing, processing_paused, cap, frame_queue, stats, volume_estimate,
           wvars, stop_pc, gvars, ret, ctl, fresh, lock, det_results, boxes_out,
           delivered>>

Min(a, b) == IF a <= b THEN a ELSE b
Max(a, b) == IF a >= b THEN a ELSE b

\* lines 39-40
clamp(val, lo, hi) == Max(lo, Min(hi, val))

\* int(p / q) for q > 0: Python's int() cuts the fraction off, towards zero
Trunc(p, q) == IF p >= 0 THEN p \div q ELSE -((-p) \div q)

\* the values of crop_margin in the checked runs, as <<numerator, denominator>>:
\* 0.1, the default 0.06, 0.5 and 0.2; and, crop_margin being any float of the
\* request (line 517), 0, -0.1, -0.5 and -1
Margins == {<<1, 10>>, <<6, 100>>, <<1, 2>>, <<1, 5>>,
            <<0, 1>>, <<-1, 10>>, <<-1, 2>>, <<-1, 1>>}

\* The boxes _extract_truck_boxes keeps in a W x H frame (lines 353-356):
\* 0 <= x1 < x2 <= W-1 and 0 <= y1 < y2 <= H-1.
KeptBoxes(W, H) ==
    {b \in [x1 : 0..(W - 1), y1 : 0..(H - 1), x2 : 0..(W - 1), y2 : 0..(H - 1)] :
        b.x2 > b.x1 /\ b.y2 > b.y1}

\* boxes of a 640 x 480 frame in the checked runs
VgaBoxes ==
    {[x1 |-> 100, y1 |-> 100, x2 |-> 300, y2 |-> 300],
     [x1 |-> 100, y1 |-> 100, x2 |-> 118, y2 |-> 127],
     [x1 |-> 0, y1 |-> 0, x2 |-> 639, y2 |-> 479],
     [x1 |-> 0, y1 |-> 0, x2 |-> 50, y2 |-> 50],
     [x1 |-> 600, y1 |-> 10, x2 |-> 630, y2 |-> 474]}

Regions ==
    {[W |-> SmallW, H |-> SmallH, box |-> b, margin |-> mg] :
        b \in KeptBoxes(SmallW, SmallH), mg \in Margins}
    \cup {[W |-> 640, H |-> 480, box |-> b, margin |-> mg] :
             b \in VgaBoxes, mg \in Margins}

\* lines 242-243: dx = int(bw * self.crop_margin), crop_margin taken exactly
Expansion(extent, mg) == Trunc(extent * mg[1], mg[2])

\* lines 241-247: (cx1, cy1, cx2, cy2)
CropWindow(r) ==
    LET dx == Expansion(r.box.x2 - r.box.x1, r.margin)
        dy == Expansion(r.box.y2 - r.box.y1, r.margin)
    IN [cx1 |-> clamp(r.box.x1 - dx, 0, r.W - 1),
        cy1 |-> clamp(r.box.y1 - dy, 0, r.H - 1),
        cx2 |-> clamp(r.box.x2 + dx, 0, r.W - 1),
        cy2 |-> clamp(r.box.y2 + dy, 0, r.H - 1)]

\* lines 239-247: the window of the box at hand is computed
ExpandAndClamp ==
    /\ region # None
    /\ window = None
    /\ window' = CropWindow(region)
    /\ UNCHANGED <<pvars, region, seg_mask, full_mask>>

\* ---------------------------------------------- the mask of one detection
\* A float array of shape (h, w): the cell of row r and column c, both
\* counted from 0, has the value a[r + 1][c + 1] / den.
\* The mask patterns of the checked runs, as the segmentation model returns
\* them (floats in [0, 1], here in tenths): all ones, the left half, a
\* checkerboard and a soft mask.
Patterns == {"ones", "left", "checker", "soft"}

MaskData(h, w, p) ==
    [h |-> h, w |-> w, den |-> 10,
     a |-> [r \in 1..h |-> [c \in 1..w |->
              CASE p = "ones" -> 10
                [] p = "left" -> IF 2 * (c - 1) < w THEN 10 ELSE 0
                [] p = "checker" -> IF (r + c) % 2 = 0 THEN 10 ELSE 0
                [] OTHER -> (3 * (r - 1) + 7 * (c - 1)) % 11]]]

\* the shapes (Mh, Mw) of masks.data for a crop of shape (ch, cw): smaller
\* than the crop, the crop's own, larger, and the frame's
MaskShapes(ch, cw) == {<<2, 3>>, <<ch, cw>>, <<ch + 1, cw + 2>>, <<SmallH, SmallW>>}

\* cv2.resize with the default bilinear interpolation, along one axis: the
\* output index d of dn samples the input of sn at ((2d + 1) sn - dn) / (2 dn),
\* between the cells i0 and i1 with the weight f / (2 dn) on i1; the position
\* is held at the first and the last cell.
Axis(d, sn, dn) ==
    LET n == (2 * d + 1) * sn - dn
        i == IF n < 0 THEN 0 ELSE n \div (2 * dn)
    IN IF n < 0 THEN [i0 |-> 0, i1 |-> 0, f |-> 0]
       ELSE IF i >= sn - 1 THEN [i0 |-> sn - 1, i1 |-> sn - 1, f |-> 0]
       ELSE [i0 |-> i, i1 |-> i + 1, f |-> n - i * 2 * dn]

\* cv2.resize(m, (dw, dh)): dsize is (width, height), the result has the
\* shape (dh, dw)   (lines 265 and 378)
cv2_resize(m, dw, dh) ==
    [h |-> dh, w |-> dw, den |-> m.den * 4 * dh * dw,
     a |-> [r \in 1..dh |-> [c \in 1..dw |->
              LET y == Axis(r - 1, m.h, dh)
                  x == Axis(c - 1, m.w, dw)
              IN (2 * dh - y.f) * ((2 * dw - x.f) * m.a[y.i0 + 1][x.i0 + 1]
                                   + x.f * m.a[y.i0 + 1][x.i1 + 1])
                 + y.f * ((2 * dw - x.f) * m.a[y.i1 + 1][x.i0 + 1]
                          + x.f * m.a[y.i1 + 1][x.i1 + 1])]]]

\* lines 376-378 with the arguments of the resize exchanged
extract_seg_masks_SwappedSize(m, crop_hw) ==
    IF <<m.h, m.w>> # crop_hw THEN cv2_resize(m, crop_hw[1], crop_hw[2]) ELSE m

\* lines 359-380, for one mask m of masks.data: h, w = crop_hw; resized to
\* (w, h) when its shape differs
extract_seg_masks(m, crop_hw) ==
    IF <<m.h, m.w>> # crop_hw THEN cv2_resize(m, crop_hw[2], crop_hw[1]) ELSE m

\* lines 261-266: zeros of shape (H, W); the mask resized when its shape is
\* not the window's; full_mask[cy1:cy2, cx1:cx2] = (m > 0.5)
FullMask(W, H, win, m0) ==
    LET m == IF <<m0.h, m0.w>> # <<win.cy2 - win.cy1, win.cx2 - win.cx1>>
             THEN cv2_resize(m0, win.cx2 - win.cx1, win.cy2 - win.cy1)
             ELSE m0
    IN [r \in 1..H |-> [c \in 1..W |->
          IF /\ win.cy1 <= r - 1 /\ r - 1 < win.cy2
             /\ win.cx1 <= c - 1 /\ c - 1 < win.cx2
          THEN IF 2 * m.a[r - win.cy1][c - win.cx1] > m.den THEN 1 ELSE 0
          ELSE 0]]

\* the region was passed over at line 251, with no segmentation call
Skipped == [skipped |-> TRUE]

\* CropCells with the height of the crop left out
CropCellsOfWidth(win) == Max(win.cx2 - win.cx1, 0)

\* line 249: the cells of crop = frame[cy1:cy2, cx1:cx2]; a slice whose end is
\* not beyond its start is empty.  crop.size is 3 times this number.
CropCells(win) == Max(win.cy2 - win.cy1, 0) * Max(win.cx2 - win.cx1, 0)

\* lines 250-251: if crop.size == 0: continue
SkipRegion ==
    /\ window # None
    /\ seg_mask = None
    /\ CropCells(window) = 0
    /\ seg_mask' = Skipped
    /\ UNCHANGED <<pvars, region, window, full_mask>>

\* lines 249-258: the segmentation model runs on crop = frame[cy1:cy2, cx1:cx2]
\* and returns a mask, which _extract_seg_masks brings to crop.shape[:2].
\* Masks are drawn for frames of at most SmallW x SmallH cells.
SegmentCrop ==
    /\ window # None
    /\ seg_mask = None
    /\ CropCells(window) # 0
    /\ region.W * region.H <= SmallW * SmallH
    /\ \E shape \in MaskShapes(window.cy2 - window.cy1, window.cx2 - window.cx1) :
       \E p \in Patterns :
          LET data == MaskData(shape[1], shape[2], p)
          IN seg_mask' = [data |-> data,
                          m |-> extract_seg_masks(data,
                                    <<window.cy2 - window.cy1, window.cx2 - window.cx1>>)]
    /\ UNCHANGED <<pvars, region, window, full_mask>>

\* lines 259-267: the mask is mapped to the full frame
RemapMask ==
    /\ seg_mask # None
    /\ seg_mask # Skipped
    /\ full_mask = None
    /\ full_mask' = FullMask(region.W, region.H, window, seg_mask.m)
    /\ UNCHANGED <<pvars, region, window, seg_mask>>

\* ------------------------------------------------- _extract_truck_boxes
\* the longest detection result of the checked runs
MaxDets == 2

\* line 53: the default of truck_class_id
truck_class_id == 7

\* The boxes of the detection results in the checked runs: class 7 (truck) or
\* 2 (car), and the corners b.xyxy as floats, in tenths of a pixel: partly left
\* of or above the frame, inside it, with the corners exchanged, beyond its
\* right or lower edge, and narrower than a pixel.
XPairs == {<<-12, 31>>, <<31, 38>>, <<38, 31>>, <<31, 95>>, <<70, 70>>}
YPairs == {<<-5, 26>>, <<20, 26>>, <<26, 70>>}

Detections ==
    {[cls |-> k, xyxy |-> <<x[1], y[1], x[2], y[2]>>] :
        k \in {2, truck_class_id}, x \in XPairs, y \in YPairs}

DetLists == UNION {[1..n -> Detections] : n \in 0..MaxDets}

\* lines 351-354: x1, y1, x2, y2 = map(int, b.xyxy[0]); each clamped in frame
ClampedBox(b, W, H) ==
    [x1 |-> clamp(Trunc(b.xyxy[1], 10), 0, W - 1),
     y1 |-> clamp(Trunc(b.xyxy[2], 10), 0, H - 1),
     x2 |-> clamp(Trunc(b.xyxy[3], 10), 0, W - 1),
     y2 |-> clamp(Trunc(b.xyxy[4], 10), 0, H - 1)]

\* Kept with a box of no extent accepted
KeptFlat(b, W, H) ==
    /\ b.cls = truck_class_id
    /\ ClampedBox(b, W, H).x2 >= ClampedBox(b, W, H).x1
    /\ ClampedBox(b, W, H).y2 >= ClampedBox(b, W, H).y1

\* lines 348-355: the tests a box passes to be appended
Kept(b, W, H) ==
    /\ b.cls = truck_class_id
    /\ ClampedBox(b, W, H).x2 > ClampedBox(b, W, H).x1
    /\ ClampedBox(b, W, H).y2 > ClampedBox(b, W, H).y1

\* lines 341-357: the loop over the boxes, appending in their order
RECURSIVE extract_truck_boxes(_, _, _)
extract_truck_boxes(dets, W, H) ==
    IF dets = <<>> THEN <<>>
    ELSE IF Kept(Head(dets), W, H)
         THEN <<ClampedBox(Head(dets), W, H)>> \o extract_truck_boxes(Tail(dets), W, H)
         ELSE extract_truck_boxes(Tail(dets), W, H)

\* line 232: truck_boxes = self._extract_truck_boxes(det_results, W, H), for a
\* frame of SmallW x SmallH
ExtractTruckBoxes ==
    /\ det_results # None
    /\ boxes_out = None
    /\ boxes_out' = [boxes |-> extract_truck_boxes(det_results.boxes, SmallW, SmallH)]
    /\ UNCHANGED <<processing, processing_paused, cap, frame_queue, stats,
                   volume_estimate, wvars, stop_pc, gvars, ret, ctl, fresh, lock,
                   region, window, seg_mask, full_mask, det_results, delivered>>

\* ------------------------------------------------- the route /api/start
\* lines 498-537.  When a processor exists (start_streams was called on it),
\* the route first runs stop_streams on it (lines 519-520), then builds a new
\* object and calls start_streams on the new one (lines 522-530).  When none
\* exists, it builds the object and calls start_streams.  The requests that
\* start and stop are handled one at a time: stop_pc is the position of
\* whichever of them is running.
ProcessorExists == \E c \in Cameras : cap[c] # "none"

\* the body of the route's response: 'success', or 'error' with status 500
Success == [op |-> "start_processing", val |-> 200, paused |-> FALSE]
Error == [op |-> "start_processing", val |-> 500, paused |-> FALSE]

\* lines 519-520 and 418: stop_streams begins on the existing processor
StartReq_Signal ==
    /\ stop_pc = "idle"
    /\ ProcessorExists
    /\ processing' = FALSE
    /\ stop_pc' = "r_join"
    /\ UNCHANGED <<xvars, processing_paused, cap, frame_queue, stats, volume_estimate, wvars,
                   gvars, ret, ctl, fresh>>

\* lines 419-423, from the route
StartReq_Release ==
    /\ stop_pc = "r_join"
    /\ cap' = [c \in Cameras |-> IF cap[c] = "none" THEN "none" ELSE "released"]
    /\ stop_pc' = "r_drain"
    /\ UNCHANGED <<xvars, processing, processing_paused, frame_queue, stats, volume_estimate,
                   wvars, gvars, ret, ctl, fresh>>

\* lines 424-427, from the route
StartReq_Drain ==
    /\ stop_pc = "r_drain"
    /\ frame_queue' = [c \in Cameras |-> <<>>]
    /\ fresh' = [c \in Cameras |-> Taken(c)]
    /\ gf_exp' = IF gf_pc # "idle" THEN Dirty ELSE gf_exp
    /\ stop_pc' = "r_new"
    /\ UNCHANGED <<xvars, processing, processing_paused, cap, stats, volume_estimate, wvars,
                   gf_pc, gf_cam, gf_frame, ret, ctl>>

\* lines 522-537: yolo_processor = DualCameraYOLO(...) and start_streams on
\* it.  The variables now are those of the new object; the threads of the old
\* one, should they still run, work on the old object and are out of sight.
StartReq_New ==
    /\ stop_pc = "r_new"
    /\ stop_pc' = "idle"
    /\ frame_queue' = [c \in Cameras |-> <<>>]
    /\ stats' = [c \in Cameras |-> ZeroStats]
    /\ volume_estimate' = 0
    /\ acq' = [c \in Cameras |-> 0]
    /\ frame' = [c \in Cameras |-> 0]
    /\ frozen_frame' = [c \in Cameras |-> 0]
    /\ truck_boxes' = [c \in Cameras |-> <<>>]
    /\ ridx' = [c \in Cameras |-> 0]
    /\ brick_masks_full' = [c \in Cameras |-> <<>>]
    /\ total_brick_area' = [c \in Cameras |-> 0]
    /\ pend' = [c \in Cameras |-> NoFrame]
    /\ path' = [c \in Cameras |-> "none"]
    /\ processing_paused' = FALSE
    /\ \/ /\ cap' = [c \in Cameras |-> "open"]
          /\ processing' = TRUE
          /\ pc' = [c \in Cameras |-> "loop"]
          /\ ret' = Success
       \/ /\ cap' = [c \in Cameras |-> "released"]
          /\ processing' = FALSE
          /\ pc' = [c \in Cameras |-> "unstarted"]
          /\ ret' = Error
    /\ ctl' = IF ctl = CtlOff THEN CtlOff ELSE <<>>
    /\ fresh' = [c \in Cameras |-> Taken(c)]
    /\ gf_exp' = IF gf_pc # "idle" THEN Dirty ELSE gf_exp
    /\ UNCHANGED <<xvars, gf_pc, gf_cam, gf_frame>>

start_processing ==
    \/ stop_pc = "idle" /\ start_streams
    \/ StartReq_Signal
    \/ StartReq_Release
    \/ StartReq_Drain
    \/ StartReq_New

\* ------------------------------------------------------------ specification
\* ------------------------------------------ the routes /api/pause, /api/resume
\* the answer 'No active processing to pause' / '... to resume'
NoActive(op) == [op |-> op, val |-> 0, paused |-> FALSE]

\* Active without the test of the processing flag
ActiveUntested == ProcessorExists

\* lines 467 and 478: if yolo_processor and yolo_processor.processing
Active == ProcessorExists /\ processing

\* lines 464-473: the method is called on an active processor; otherwise the
\* route only answers
pause_route ==
    \/ Active /\ pause_processing
    \/ /\ ~Active
       /\ ret' = NoActive("pause")
       /\ UNCHANGED <<xvars, processing, processing_paused, cap, frame_queue, stats,
                      volume_estimate, wvars, stop_pc, gvars, ctl, fresh>>

\* lines 475-484
resume_route ==
    \/ Active /\ resume_processing
    \/ /\ ~Active
       /\ ret' = NoActive("resume")
       /\ UNCHANGED <<xvars, processing, processing_paused, cap, frame_queue, stats,
                      volume_estimate, wvars, stop_pc, gvars, ctl, fresh>>

WorkerStep == \E c \in Cameras : Worker(c)

\* The object with its two workers, the consumer of the frames and the threads
\* that pause, resume and start it, with the history of the queues.
Init == InitWith(CtlOff, NoPub)

Next ==
    \/ WorkerStep
    \/ get_frame
    \/ pause_processing
    \/ resume_processing
    \/ start_streams

Spec == Init /\ [][Next]_vars

\* The object with its two workers and the threads that pause, resume, start
\* and stop it, with the history of the control calls.
InitCtl == InitWith(<<>>, HistOff)

NextCtl ==
    \/ WorkerStep
    \/ pause_processing
    \/ resume_processing
    \/ start_streams
    \/ stop_streams

SpecCtl == InitCtl /\ [][NextCtl]_vars

\* The object with its two workers, the threads that poll the stats and the
\* threads that start and stop it.
InitStats == InitWith(CtlOff, HistOff)

NextStats ==
    \/ WorkerStep
    \/ get_stats
    \/ estimate_volume
    \/ start_streams
    \/ stop_streams

SpecStats == InitStats /\ [][NextStats]_vars

\* Spec without the histories, and with the fairness the scheduler of the
\* threads gives: a worker thread that can take a step eventually takes one.
SpecLive == InitStats /\ [][Next]_vars /\ \A c \in Cameras : WF_vars(Worker(c))

\* The object with its two workers, the threads that pause and resume it, and
\* the requests that start it, start it anew and stop it, one at a time.
NextApi ==
    \/ WorkerStep
    \/ pause_processing
    \/ resume_processing
    \/ start_processing
    \/ stop_streams

SpecApi == InitStats /\ [][NextApi]_vars

\* The object with its two workers, the threads that read the frames, and the
\* threads that pause, resume, start and stop it.
NextQueue ==
    \/ WorkerStep
    \/ get_frame
    \/ pause_processing
    \/ resume_processing
    \/ start_streams
    \/ stop_streams

SpecQueue == InitStats /\ [][NextQueue]_vars

\* The object with its two workers, each "with self.stats_lock" block that
\* holds more than one statement taken statement by statement, and the threads
\* that pause, resume, poll the stats, start and stop.
InitLock ==
    /\ InitProgram(CtlOff, HistOff, 0)
    /\ region = None
    /\ window = None
    /\ seg_mask = None
    /\ full_mask = None
    /\ det_results = None
    /\ boxes_out = None
    /\ delivered = DeliveredOff

NextLock ==
    \/ WorkerStep
    \/ \E c \in Cameras : WorkerLog(c)
    \/ pause_processing
    \/ resume_processing
    \/ get_stats
    \/ estimate_volume
    \/ start_streams
    \/ stop_streams

SpecLock == InitLock /\ [][NextLock]_vars

\* The object with its two threads started at lines 170-173, where the worker
\* of camera 1 may stop for ever at any point outside the block of lines
\* 315-318 (in cap.read(), in an inference call, anywhere else), and the worker
\* of camera 2 is scheduled: when it can take a step it eventually takes one.
NextProgress ==
    \/ WorkerStep
    \/ \E c \in Cameras : WorkerLog(c)
    \/ pause_processing
    \/ resume_processing
    \/ get_stats
    \/ estimate_volume
    \/ start_streams

SpecProgress ==
    /\ InitLock
    /\ [][NextProgress]_vars
    /\ WF_vars(Worker(2))
    /\ WF_vars(WorkerLog(2))
    /\ WF_vars(W_LogRead(1) \/ W_LogDebug(1))

\* The object with its two workers and the requests of the routes /api/pause,
\* /api/resume, /api/start and /api/stop.
NextRoutes ==
    \/ WorkerStep
    \/ pause_route
    \/ resume_route
    \/ start_processing
    \/ stop_streams

SpecRoutes == InitStats /\ [][NextRoutes]_vars

\* Spec with the history of the frames get_frame returned in place of the
\* history of the publishes.
InitOrder ==
    /\ InitProgram(CtlOff, HistOff, LockOff)
    /\ region = None
    /\ window = None
    /\ seg_mask = None
    /\ full_mask = None
    /\ det_results = None
    /\ boxes_out = None
    /\ delivered = [c \in Cameras |-> 0]

SpecOrder == InitOrder /\ [][Next]_vars

\* The computations of one iteration on one kept box, for every box, frame
\* size and margin of Regions.
InitCrop ==
    /\ InitProgram(CtlOff, HistOff, LockOff)
    /\ region \in Regions
    /\ window = None
    /\ seg_mask = None
    /\ full_mask = None
    /\ det_results = None
    /\ boxes_out = None
    /\ delivered = DeliveredOff

NextCrop ==
    \/ ExpandAndClamp
    \/ SkipRegion
    \/ SegmentCrop
    \/ RemapMask

SpecCrop == InitCrop /\ [][NextCrop]_vars

\* _extract_truck_boxes on every detection result of DetLists
InitBoxes ==
    /\ InitProgram(CtlOff, HistOff, LockOff)
    /\ region = None
    /\ window = None
    /\ seg_mask = None
    /\ full_mask = None
    /\ det_results \in {[boxes |-> d] : d \in DetLists}
    /\ boxes_out = None
    /\ delivered = DeliveredOff

NextBoxes ==
    \/ ExtractTruckBoxes

SpecBoxes == InitBoxes /\ [][NextBoxes]_vars

\* ------------------------------------------------------------------ claims
\* C1: a get_frame that no publish overlaps returns the encoding of exactly the
\* frame published last, however many frames (one or more) were published
\* since the previous read, and returns None (no bytes) when the queue was
\* empty at the call; a get_frame that has begun can always take its next step,
\* so it never blocks.
C1_DropOldest ==
    /\ gf_pc = "ret" /\ gf_exp.kind = "frame" => GF_Result = Jpeg(gf_exp.frame)
    /\ gf_pc = "ret" /\ gf_exp.kind = "none" => GF_Result = NoBytes
    /\ gf_pc # "idle" => ENABLED (GF_Empty \/ GF_Get \/ GF_Return)

\* two frames were published with no read in between, and the read returns
\* the second one
C1_Witness ==
    /\ gf_pc = "ret"
    /\ gf_exp.kind = "frame"
    /\ gf_exp.n = 2
    /\ gf_exp.frame.acq = 2
    /\ GF_Result = Jpeg(gf_exp.frame)
    /\ frame_queue[gf_cam] = <<>>

\* C2: when a step of an iteration after the acquisition raises, the worker
\* takes the raw frame it acquired in this iteration as the frame to publish,
\* publishes it (the queue then holds exactly this frame), and goes on with the
\* test of its loop; a worker ends only at the test of its loop, never in the
\* middle of an iteration.
C2_FailureIsolation ==
    [][\A c \in Cameras :
         /\ pc[c] \in {"detect", "seg", "compose"} /\ path'[c] # "run"
               /\ pc'[c] \notin {"detect", "seg", "compose"}
               => /\ path'[c] = "error"
                  /\ pc'[c] = "pub_empty"
                  /\ pend'[c] = RawFrame(acq[c])
         /\ path[c] = "error"
               => /\ pc[c] \in PubPcs
                  /\ pc'[c] \in PubPcs \/ pc'[c] = "loop"
                  /\ pend[c] = RawFrame(acq[c])
         /\ path[c] = "error" /\ pc[c] = "pub_put" /\ pc'[c] # "pub_put"
               => /\ frame_queue'[c] = <<RawFrame(acq[c])>>
                  /\ pc'[c] = "loop"
         /\ pc'[c] = "done" /\ pc[c] # "done" => pc[c] = "loop"
      ]_vars

\* the second iteration of a worker raised after its first had succeeded, and
\* the raw second frame is about to be put into the emptied queue
C2_Witness ==
    \E c \in Cameras :
        /\ path[c] = "error"
        /\ pc[c] = "pub_put"
        /\ acq[c] = 2
        /\ pend[c] = RawFrame(2)
        /\ stats[c].trucks = 2
        /\ frame_queue[c] = <<>>

\* C3: when the localization stage of an iteration raises, the stored counts
\* of trucks and of objects of the camera are 0 from then on (the counts of
\* the failed iteration), not the counts of an earlier iteration.
C3_FailedLocalizationZeroes ==
    [][\A c \in Cameras :
         pc[c] = "detect" /\ path'[c] = "error"
             => stats'[c].trucks = 0 /\ stats'[c].objects = 0
      ]_vars

\* C4: while the pause flag is set, no worker makes a cap.read() call, the
\* worker that read the flag just before the pause included.
C4_NoReadWhilePaused ==
    [][\A c \in Cameras :
         ~(processing_paused /\ pc[c] = "read" /\ pc'[c] # "read")
      ]_vars

\* C5: while the pause flag is set and worker c has acquired a frame, every
\* frame that worker c puts into its queue is a copy of the raw frame it
\* acquired last, and whenever the queue is empty it eventually holds a frame
\* again (or the pause or the run has ended).
C5_PausedRepublish ==
    /\ [][\A c \in Cameras :
            processing_paused /\ pc[c] = "pub_put" /\ pc'[c] # "pub_put"
                => frame_queue'[c] = <<RawFrame(acq[c])>>
         ]_vars
    /\ \A c \in Cameras :
           (processing /\ processing_paused /\ frozen_frame[c] # 0
               /\ frame_queue[c] = <<>>)
             ~> (frame_queue[c] # <<>> \/ ~processing_paused \/ ~processing)

\* the last call that wrote the pause flag, "start" when it was start_streams
LastCtl == IF ctl = <<>> THEN "start" ELSE ctl[Len(ctl)]

\* the state of the program: every variable but the history ctl
progvars == <<processing, processing_paused, cap, frame_queue, stats, volume_estimate,
              wvars, stop_pc, gvars, ret, fresh>>

\* C6: a pause_processing() that follows a pause_processing(), whatever the
\* workers and stop_streams did in between, changes nothing of the state (flag,
\* stats, queues, position and locals of the workers), and the flag is set
\* after it; the same for resume_processing() after resume_processing(), with
\* the flag clear.
C6_Idempotent ==
    [][/\ pause_processing /\ LastCtl = "pause"
            => UNCHANGED progvars /\ processing_paused'
       /\ resume_processing /\ LastCtl = "resume"
            => UNCHANGED progvars /\ ~processing_paused'
      ]_vars

\* pause_processing() was called twice in a row on a running pipeline whose
\* worker republishes the frozen frame
C6_Witness ==
    /\ ctl = <<"pause", "pause">>
    /\ processing
    /\ processing_paused
    /\ \E c \in Cameras : path[c] = "paused" /\ pc[c] = "pub_put"

\* C7: on a running pipeline that is not paused (as it is after a resume), a
\* worker that reads the flag goes to cap.read() in that same iteration; every
\* live worker eventually is at its cap.read() call (or the pipeline is paused
\* again or stopped); and every frame a worker acquires is eventually the frame
\* its queue holds.
C7_ResumeRestores ==
    /\ [][\A c \in Cameras :
            pc[c] = "chk" /\ pc'[c] # "chk" /\ ~processing_paused
                => pc'[c] = "read"
         ]_vars
    /\ \A c \in Cameras :
           (processing /\ ~processing_paused /\ pc[c] \notin {"unstarted", "done"})
             ~> (pc[c] = "read" \/ processing_paused \/ ~processing)
    /\ \A c \in Cameras :
           (pc[c] = "detect")
             ~> (frame_queue[c] # <<>>
                   /\ frame_queue[c][Len(frame_queue[c])].acq = acq[c])

\* after a pause during which worker c republished frame 1 (the queue holds
\* the raw copy, while the iteration of frame 1 had published it with two
\* boxes) and a resume, worker c has acquired frame 2
C7_Witness ==
    \E c \in Cameras :
        /\ processing
        /\ ~processing_paused
        /\ pc[c] = "detect"
        /\ acq[c] = 2
        /\ stats[c].trucks = 2
        /\ frame_queue[c] = <<RawFrame(1)>>

\* C8: the step that completes an iteration without an exception stores, all
\* at once, trucks = the number of boxes kept, objects = the number of masks
\* collected over all regions, and brick_area = total_area = the sum of the
\* pixel counts of these masks; no other step of a worker changes the stats
\* of a camera; and the frame such an iteration publishes shows as many boxes
\* and masks as the stats say.
C8_StatsAreIterationResults ==
    /\ [][\A c \in Cameras :
            /\ pc[c] = "compose" /\ path'[c] = "run"
                  => stats'[c] = [trucks |-> Len(truck_boxes[c]),
                                  objects |-> Len(brick_masks_full[c]),
                                  total_area |-> SumSeq(brick_masks_full[c]),
                                  brick_area |-> SumSeq(brick_masks_full[c])]
            /\ stats'[c] # stats[c] => pc[c] = "compose" /\ path'[c] = "run"
         ]_vars
    /\ [](\A c \in Cameras :
            path[c] = "run"
                => /\ pend[c].boxes = stats[c].trucks
                   /\ pend[c].masks = stats[c].objects)

\* an iteration with two boxes, one of them an empty crop, and two masks of 1
\* and 2 pixels has just stored its results
C8_Witness ==
    \E c \in Cameras :
        /\ path[c] = "run"
        /\ pc[c] = "pub_empty"
        /\ stats[c] = [trucks |-> 2, objects |-> 2, total_area |-> 3, brick_area |-> 3]

\* C9: what a snapshot returned by get_stats() holds for a camera does not
\* change after the call has returned, whatever the workers store later.
C9_SnapshotStable ==
    [][ret.op = "get_stats" /\ ret' = ret
           => \A c \in Cameras : SnapshotCamera(c)' = SnapshotCamera(c)
      ]_vars

\* C10: estimate_volume() stores and returns 0.01 x (area1 + area2) / 2 (the
\* volume is counted in units of 1/200), with area1 and area2 the brick areas
\* of the two cameras as stored in the state the call runs in, and changes
\* no stats of a camera; no other step changes the stored estimate.
C10_VolumeEstimate ==
    [][(ret'.op = "estimate_volume" /\ ret' # ret) \/ volume_estimate' # volume_estimate
           => /\ 2 * 100 * volume_estimate'
                    = 200 * (stats[1].brick_area + stats[2].brick_area)
              /\ ret'.op = "estimate_volume"
              /\ ret'.val = volume_estimate'
              /\ stats' = stats
              /\ UNCHANGED <<processing, processing_paused, frame_queue>>
      ]_vars

\* the estimate of two cameras that each store a brick area of 3 pixels:
\* 0.01 x (3 + 3) / 2 = 0.03 = 6/200
C10_Witness ==
    /\ ret.op = "estimate_volume"
    /\ ret.val = 6
    /\ volume_estimate = 6
    /\ stats[1].brick_area = 3
    /\ stats[2].brick_area = 3

\* C11: a request to start that arrives while the pipeline is running changes
\* nothing of the running pipeline (flag, capture handles, queues, stats,
\* workers), and the response it ends with is an error.
C11_StartFailsIfRunning ==
    [][/\ stop_pc = "idle" /\ stop_pc' = "r_join" /\ processing
            => processing' /\ UNCHANGED <<cap, frame_queue, stats, wvars>>
       /\ stop_pc = "r_new" /\ stop_pc' = "idle" => ret' = Error
      ]_vars

\* C12: a start_streams call on a new object either opens both captures, sets
\* the processing flag, starts both workers and returns; or it raises, and
\* then no capture handle is left open (each is released), the processing flag
\* is False and no worker has been started.  Nothing in between.
C12_StartAllOrNothing ==
    [][(\A c \in Cameras : cap[c] = "none") /\ (\E c \in Cameras : cap'[c] # "none")
           => \/ /\ ret' = Returned
                 /\ \A c \in Cameras : cap'[c] = "open" /\ pc'[c] = "loop"
                 /\ processing'
              \/ /\ ret' = Raised
                 /\ \A c \in Cameras : cap'[c] = "released" /\ pc'[c] = "unstarted"
                 /\ ~processing'
                 /\ \A c \in Cameras : frame_queue'[c] = <<>>
      ]_vars

\* a start_streams call has raised: handles released, flag False, no worker
C12_Witness ==
    /\ ret = Raised
    /\ \A c \in Cameras : cap[c] = "released" /\ pc[c] = "unstarted"
    /\ ~processing
    /\ stop_pc = "idle"

\* no capture handle is open: each is released, or was never made
NoneOpen == \A c \in Cameras : cap[c] \in {"none", "released"}

\* the state stop_streams() leaves: flag False, no handle open, queues empty
Stopped ==
    /\ ~processing
    /\ NoneOpen
    /\ \A c \in Cameras : frame_queue[c] = <<>>

\* C13: stop_streams() can be called in every state and every step of it can
\* be taken (it raises nothing and waits for nothing without bound); when it
\* returns, the processing flag is False, no capture handle is open and both
\* queues are empty; and a step of stop_streams() taken in a state that is
\* already so (as a stop has left it) changes nothing.
C13_StopIdempotent ==
    /\ [](/\ stop_pc = "idle" => ENABLED Stop_Signal
          /\ stop_pc = "join" => ENABLED Stop_Release
          /\ stop_pc = "drain" => ENABLED Stop_Drain)
    /\ [][/\ (stop_pc = "drain" /\ stop_pc' = "idle") => Stopped'
          /\ (stop_streams /\ Stopped)
               => UNCHANGED <<processing, processing_paused, cap, frame_queue, stats,
                              volume_estimate, wvars, ret>>
         ]_vars

\* a second stop_streams() is under way on a pipeline that had run and that a
\* first stop_streams() has stopped
C13_Witness ==
    /\ stop_pc = "join"
    /\ \A c \in Cameras : cap[c] = "released" /\ pc[c] = "done"
    /\ \E c \in Cameras : acq[c] >= 1
    /\ \A c \in Cameras : frame_queue[c] = <<>>
    /\ ~processing

\* the integers nearest to p / q, for q > 0: one, or two at a tie
Nearest(p, q) ==
    {n \in (Min(p, 0) - 1)..(Max(p, 0) + 1) : 2 * (n * q - p) <= q /\ 2 * (p - n * q) <= q}

\* C14: the crop window of a kept box is the box expanded on each side by
\* dx = round((x2 - x1) x m) and dy = round((y2 - y1) x m), rounded to the
\* nearest integer, and clamped to [0, W-1] and [0, H-1].
C14_WindowRoundsToNearest ==
    window # None
        => \E dx \in Nearest((region.box.x2 - region.box.x1) * region.margin[1],
                              region.margin[2]) :
           \E dy \in Nearest((region.box.y2 - region.box.y1) * region.margin[1],
                              region.margin[2]) :
              window = [cx1 |-> clamp(region.box.x1 - dx, 0, region.W - 1),
                        cy1 |-> clamp(region.box.y1 - dy, 0, region.H - 1),
                        cx2 |-> clamp(region.box.x2 + dx, 0, region.W - 1),
                        cy2 |-> clamp(region.box.y2 + dy, 0, region.H - 1)]

\* C15: for a margin m > 0, the crop window is at least as wide and as high
\* as the box, and as wide (as high) only when the clamp cut the expansion
\* off at a frame edge.
C15_WindowWiderUnlessClamped ==
    window # None /\ region.margin[1] > 0
        => LET dx == Expansion(region.box.x2 - region.box.x1, region.margin)
               dy == Expansion(region.box.y2 - region.box.y1, region.margin)
               bw == region.box.x2 - region.box.x1
               bh == region.box.y2 - region.box.y1
           IN /\ window.cx2 - window.cx1 >= bw
              /\ window.cy2 - window.cy1 >= bh
              /\ window.cx2 - window.cx1 = bw
                    => region.box.x1 - dx < 0 \/ region.box.x2 + dx > region.W - 1
              /\ window.cy2 - window.cy1 = bh
                    => region.box.y1 - dy < 0 \/ region.box.y2 + dy > region.H - 1

\* C16: the full-frame mask of a detection has the frame's shape, H rows of W
\* cells; it is 0 outside the rows [cy1, cy2) and the columns [cx1, cx2) of the
\* crop window; inside, it holds the mask the model returned, resized to the
\* window's extent and binarized at 0.5; and the window lies in the frame,
\* 0 <= cx1 <= cx2 <= W-1 and 0 <= cy1 <= cy2 <= H-1.  This holds for masks
\* smaller than, as large as and larger than the window.
C16_RemapStaysInCanvas ==
    full_mask # None
        => LET cw == window.cx2 - window.cx1
               ch == window.cy2 - window.cy1
               resized == cv2_resize(seg_mask.data, cw, ch)
           IN /\ 0 <= window.cx1 /\ window.cx1 <= window.cx2 /\ window.cx2 <= region.W - 1
              /\ 0 <= window.cy1 /\ window.cy1 <= window.cy2 /\ window.cy2 <= region.H - 1
              /\ DOMAIN full_mask = 1..region.H
              /\ \A r \in 1..region.H :
                    /\ DOMAIN full_mask[r] = 1..region.W
                    /\ \A c \in 1..region.W :
                          full_mask[r][c] =
                             IF /\ window.cy1 <= r - 1 /\ r - 1 < window.cy2
                                /\ window.cx1 <= c - 1 /\ c - 1 < window.cx2
                             THEN IF 2 * resized.a[r - window.cy1][c - window.cx1] > resized.den
                                  THEN 1 ELSE 0
                             ELSE 0

\* a mask larger than a window that is not square was mapped, and the result
\* has cells of both values inside the window
C16_Witness ==
    /\ full_mask # None
    /\ window.cx2 - window.cx1 # window.cy2 - window.cy1
    /\ seg_mask.data.h > window.cy2 - window.cy1
    /\ seg_mask.data.w > window.cx2 - window.cx1
    /\ \E r \in (window.cy1 + 1)..window.cy2 : \E c \in (window.cx1 + 1)..window.cx2 :
          full_mask[r][c] = 1
    /\ \E r \in (window.cy1 + 1)..window.cy2 : \E c \in (window.cx1 + 1)..window.cx2 :
          full_mask[r][c] = 0

\* C17: in every reachable state each queue holds at most one frame, and a
\* worker about to call put_nowait finds its queue empty, so that the put
\* never meets a full queue (capacity QueueSize) and no frame is lost to
\* queue.Full.
C17_QueueAtMostOne ==
    \A c \in Cameras :
        /\ Len(frame_queue[c]) <= 1
        /\ pc[c] = "pub_put" => frame_queue[c] = <<>>

\* a worker on the paused path is about to put its frame while a get_frame on
\* the same queue is between its test and its get, stop_streams is emptying
\* the queues, and the other queue holds a frame
C17_Witness ==
    /\ pc[1] = "pub_put"
    /\ path[1] = "paused"
    /\ gf_pc = "get"
    /\ gf_cam = 1
    /\ stop_pc = "drain"
    /\ Len(frame_queue[2]) = 1

\* C18: the stop flag is checked after every blocking call, so that once
\* processing is False a worker starts no further inference call: a worker
\* whose capture read returns while the flag is False does not go on to the
\* detection call, and one whose detection call returns while the flag is
\* False does not go on to a segmentation call.
C18_NoInferenceAfterStop ==
    [][\A c \in Cameras :
          /\ (~processing /\ pc[c] = "read") => pc'[c] # "detect"
          /\ (~processing /\ pc[c] = "detect") => pc'[c] # "seg"]_vars

\* C19: once stop_streams has returned (the flag is False, the handles are
\* released and no stop is running), both queues are empty, and they stay
\* empty until the next start: no worker publishes after the drain.
C19_EmptyAfterStop ==
    (stop_pc = "idle" /\ ~processing /\ \A c \in Cameras : cap[c] = "released")
        => \A c \in Cameras : frame_queue[c] = <<>>

\* the positions of a worker inside or before a call that may block: the
\* sleeps, the capture read, the detection call, a segmentation call
SuspensionPcs == {"sleep", "read", "detect", "seg"}

\* C20: a worker that holds the stats lock is at no suspension point, and it
\* holds the lock for a read or a write of the flag or of the stats only: it
\* makes no other call while it holds it.
C20_LockOnlyAroundAccess ==
    \A c \in Cameras :
        lock = c => pc[c] \notin SuspensionPcs /\ pc[c] # "log_call"

TruckPositions ==
    {i \in 1..Len(det_results.boxes) :
        LET b == det_results.boxes[i]
        IN /\ b.cls = 7
           /\ clamp(Trunc(b.xyxy[3], 10), 0, SmallW - 1) > clamp(Trunc(b.xyxy[1], 10), 0, SmallW - 1)
           /\ clamp(Trunc(b.xyxy[4], 10), 0, SmallH - 1) > clamp(Trunc(b.xyxy[2], 10), 0, SmallH - 1)}

\* C22: _extract_truck_boxes returns, in the order of the detection result,
\* exactly the boxes of class truck_class_id whose clamped corners have
\* x2 > x1 and y2 > y1, each as its clamped corners; so every returned region
\* has 0 <= x1 < x2 <= W-1 and 0 <= y1 < y2 <= H-1.
C22_TruckBoxesFiltered ==
    boxes_out # None
        => /\ Len(boxes_out.boxes) = Cardinality(TruckPositions)
           /\ \A i \in TruckPositions :
                 LET k == Cardinality({j \in TruckPositions : j <= i})
                     b == det_results.boxes[i]
                 IN boxes_out.boxes[k] =
                       [x1 |-> clamp(Trunc(b.xyxy[1], 10), 0, SmallW - 1),
                        y1 |-> clamp(Trunc(b.xyxy[2], 10), 0, SmallH - 1),
                        x2 |-> clamp(Trunc(b.xyxy[3], 10), 0, SmallW - 1),
                        y2 |-> clamp(Trunc(b.xyxy[4], 10), 0, SmallH - 1)]
           /\ \A k \in 1..Len(boxes_out.boxes) :
                 LET r == boxes_out.boxes[k]
                 IN /\ 0 <= r.x1 /\ r.x1 < r.x2 /\ r.x2 <= SmallW - 1
                    /\ 0 <= r.y1 /\ r.y1 < r.y2 /\ r.y2 <= SmallH - 1

\* of two detections, a car and a truck that sticks out of the frame, the
\* truck alone was returned, clamped
C22_Witness ==
    /\ boxes_out # None
    /\ Len(det_results.boxes) = 2
    /\ det_results.boxes[1].cls = 2
    /\ det_results.boxes[2].xyxy = <<-12, -5, 31, 26>>
    /\ boxes_out.boxes = <<[x1 |-> 0, y1 |-> 0, x2 |-> 3, y2 |-> 2]>>

\* C23: the segmentation call is made on crop windows of positive area only:
\* for every kept region and every margin (0 and negative ones too), either
\* cx2 > cx1 and cy2 > cy1, or the region is passed over with no segmentation
\* call and no mask; and the region (0, 0, 50, 50) of a 640 x 480 frame with
\* margin 0.2 has the window (0, 0, 60, 60).
C23_SegmentsPositiveArea ==
    /\ (seg_mask # None /\ seg_mask # Skipped)
          => window.cx2 > window.cx1 /\ window.cy2 > window.cy1
    /\ seg_mask = Skipped
          => ~(window.cx2 > window.cx1 /\ window.cy2 > window.cy1) /\ full_mask = None
    /\ (window # None /\ ~(window.cx2 > window.cx1 /\ window.cy2 > window.cy1))
          => ENABLED SkipRegion \/ seg_mask = Skipped
    /\ (/\ window # None
        /\ region.W = 640
        /\ region.box = [x1 |-> 0, y1 |-> 0, x2 |-> 50, y2 |-> 50]
        /\ region.margin = <<1, 5>>)
          => window = [cx1 |-> 0, cy1 |-> 0, cx2 |-> 60, cy2 |-> 60]

\* with a negative margin the window of a kept box has a width but no
\* height, and the region was passed over
C23_Witness ==
    /\ seg_mask = Skipped
    /\ region.margin[1] < 0
    /\ window.cx2 > window.cx1
    /\ window.cy2 <= window.cy1

\* C24: a pause or resume request that finds no processor, or one that is
\* not processing (stopped, or its start failed), changes nothing: not the
\* flag, the stats, the queues, the handles or the workers; and every start
\* that succeeds begins processing, not paused, with both workers at their
\* loop test.
C24_PauseResumeNoOpWhenIdle ==
    [][/\ ((pause_route \/ resume_route) /\ ~(ProcessorExists /\ processing))
            => UNCHANGED <<processing, processing_paused, cap, frame_queue, stats,
                           volume_estimate, wvars, stop_pc>>
       /\ (start_processing /\ ret' \in {Success, Returned} /\ processing')
            => ~processing_paused' /\ \A c \in Cameras : pc'[c] = "loop"
      ]_vars

\* a pause request was answered with no change on a processor that had been
\* paused and then stopped: the flag it left set is still set
C24_Witness ==
    /\ ret = NoActive("pause")
    /\ ~processing
    /\ processing_paused
    /\ \A c \in Cameras : cap[c] = "released"
    /\ stop_pc = "idle"

\* C25: at most one worker thread per camera is executing the processing
\* loop at any moment: a start request creates the workers of the new
\* processor only when every worker of the processor it replaces has left
\* its loop (or never entered it).
C25_OneWorkerPerCamera ==
    [][(stop_pc = "r_new" /\ stop_pc' = "idle" /\ processing')
          => \A c \in Cameras : pc[c] \in {"done", "unstarted"}]_vars

\* C26: no worker calls cap.read() on a handle that stop_streams has
\* released: the handles are released only when both workers have left their
\* loops, so that every read a worker makes finds its handle not released.
C26_NoReadAfterRelease ==
    [][\A c \in Cameras :
          (pc[c] = "read" /\ pc'[c] # "read") => cap[c] # "released"]_vars

\* C27: the frames get_frame returns for a camera come in the order of their
\* acquisition: a read that returns a frame returns one acquired no earlier
\* than the frame the read before it returned for that camera, whether the
\* frame was published by a completed iteration, by the except clause or
\* while paused.
C27_DeliveredInOrder ==
    [][(gf_pc = "ret" /\ gf_pc' = "idle" /\ GF_Result # NoBytes)
          => gf_frame.acq >= delivered[gf_cam]]_vars

\* camera c's second frame is being returned after its first one was
\* returned, and its worker, paused, republishes the second
C27_Witness ==
    /\ gf_pc = "ret"
    /\ gf_frame # NoFrame
    /\ gf_frame.acq = 2
    /\ delivered[gf_cam] = 1
    /\ processing_paused
    /\ path[gf_cam] = "paused"

=============================================================================
